---- MODULE Spec2Model ----
(***************************************************************************)
(* ASCII art engine: the animation controller (ASCIIAnimationController)   *)
(* driving one animation instance from the host's frame clock, resize      *)
(* signal, visibility observer and debounce timer.                         *)
(*                                                                         *)
(* Time is in milliseconds.  The host clock moves in steps of Quantum ms;  *)
(* requestAnimationFrame callbacks receive the clock value of the frame in *)
(* which they run, and a callback runs in a frame later than the instant   *)
(* at which it was requested.  Timers fire at their due instant.           *)
(***************************************************************************)
EXTENDS Integers, Sequences, FiniteSets, TLC

\* ---------------------------------------------------------------- bounds
\* Clock horizon (ms).
MaxTime == 250
\* Granularity of the host clock (ms).
Quantum == 50
\* Largest measured surface width / height (px).
MaxRect == 2
\* Largest number of _loop callbacks pending at once.
MaxPending == 2

\* Math.random() returns a multiple of 1/Grain.
Grain == 20
\* Largest number of update() calls made on one animation instance.
MaxUpdates == 30
\* Number of nodes of a GraphAnimation (the code constructs 12).
NodeCount == 2
\* Largest number of update() calls after which draw() is called on a
\* NeuralNetworkAnimation.
MaxDrawnUpdates == 20
\* Largest number of update() calls made on one GraphAnimation.
MaxGraphUpdates == 15
\* Largest side of a renderer's grid.
MaxSide == 5
\* Largest coordinate of a line's endpoint.
MaxCoord == 4
\* Largest radius of a circle.
MaxRadius == 6

\* ----------------------------------------------------- program constants
\* opts.fps: the target frame rates a controller is constructed with.
FpsOptions == {10}
\* setTimeout(() => this._computeSize(), 200)
ResizeDelay == 200

VARIABLES
  fps,                   \* this.fps
  frameInterval,         \* this.frameInterval
  running,               \* this.running
  visible,               \* this.visible
  frameId,               \* this.frameId (0: null)
  lastFrameTime,         \* this.lastFrameTime
  animation,             \* this.animation: <<>> (null) or <<instance>>
  cols,                  \* this.cols (0: undefined)
  rows,                  \* this.rows (0: undefined)
  prefersReducedMotion,  \* this.prefersReducedMotion
  text,                  \* this._textNode.nodeValue (<<>>: "")
  rafPending,            \* callbacks registered with requestAnimationFrame
  timers,                \* timers registered with setTimeout
  resizeTimer,           \* this._resizeTimer (0: undefined)
  listening,             \* the resize listener is attached to window
  observing,             \* the intersection observer is connected
  now,                   \* the host clock
  calls,                 \* the calls the last step made on the animation
  sized,                 \* <<m>>: the last step was a sizing computation that measured m
  acceptedAt,            \* timestamp of the latest frame that passed the gate
  burst,                 \* instants of the resize signals not yet followed by a sizing
  destroyed,             \* destroy() has returned
  ren,                   \* an ASCIIRenderer and the last primitive called on it
  net,                   \* a NeuralNetworkAnimation instance
  graph,                 \* a GraphAnimation instance
  stream                 \* a DataStreamAnimation instance

\* The controller's variables.
ctlVars == <<fps, frameInterval, running, visible, frameId, lastFrameTime, animation, cols, rows,
             prefersReducedMotion, text, rafPending, timers, resizeTimer,
             listening, observing, now, calls, sized, acceptedAt, burst,
             destroyed>>

\* The renderer's and the animation variants' variables.
libVars == <<ren, net, graph, stream>>

vars == <<ctlVars, libVars>>

\* ---------------------------------------------------------------- helpers
\* A handle returned by requestAnimationFrame / setTimeout: distinct from
\* every handle still pending.
NewId(pending) == CHOOSE i \in 1..(Cardinality(pending) + 1) :
                    \A c \in pending : c.id # i

LoopPending == {c \in rafPending : c.kind = "_loop"}

\* ------------------------------------------------------ animation instance
\* new this.AnimationClass(cols, rows): every variant stores w, h, time = 0.
AnimationClass(w, h) == [w |-> w, h |-> h, time |-> 0]

\* animation.update(): one tick.
update(a) == [a EXCEPT !.time = @ + 1]

\* animation.draw(): the frame painted from the instance's state.
draw(a) == <<a.w, a.h, a.time>>

\* --------------------------------------------------------------- the loop
\* The liveness check without the running flag.
LoopAlive_visibleOnly(run, vis) == vis

\* The liveness check without the visible flag.
LoopAlive_runningOnly(run, vis) == run

\* The liveness check left out.
LoopAlive_always(run, vis) == TRUE

\* if (!this.running || !this.visible) return;
LoopAlive(run, vis) == run /\ vis

\* The frame gate letting every later timestamp through.
GateOpen_anyLater(delta) == delta > 0

\* if (delta < this.frameInterval) return;
GateOpen(delta) == ~(delta < frameInterval)

\* this.lastFrameTime = timestamp - (delta % this.frameInterval);
NextFrameTime(timestamp, delta) == timestamp - (delta % frameInterval)

\* The motion preference ignored.
ShouldUpdate_always == TRUE

\* if (!this.prefersReducedMotion) this.animation.update();
ShouldUpdate == ~prefersReducedMotion

\* The frame painted before the tick is applied.
Painted_beforeUpdate(before, after) == draw(before)

\* this._textNode.nodeValue = this.animation.draw(), after update() has
\* taken the instance from before to after.
Painted(before, after) == draw(after)

\* _loop(timestamp), entered with this.running = run and this.visible = vis
\* already assigned by the caller; hasTs is FALSE when the call passes no
\* timestamp; pend is the set of callbacks still registered.
_loop(run, vis, hasTs, timestamp, pend) ==
  IF ~LoopAlive(run, vis)
  THEN /\ rafPending' = pend
       /\ calls' = <<>>
       /\ UNCHANGED <<frameId, lastFrameTime, animation, text, acceptedAt>>
  ELSE LET id == NewId(pend)
           delta == timestamp - lastFrameTime
       IN  /\ frameId' = id
           /\ rafPending' = pend \cup {[id |-> id, kind |-> "_loop", ready |-> FALSE]}
           /\ IF ~hasTs \/ ~GateOpen(delta)
              THEN /\ calls' = <<>>
                   /\ UNCHANGED <<lastFrameTime, animation, text, acceptedAt>>
              ELSE /\ lastFrameTime' = NextFrameTime(timestamp, delta)
                   /\ acceptedAt' = <<timestamp>>
                   /\ IF animation = <<>>
                      THEN /\ calls' = <<>>
                           /\ UNCHANGED <<animation, text>>
                      ELSE LET a == IF ShouldUpdate THEN update(animation[1])
                                                    ELSE animation[1]
                           IN  /\ animation' = <<a>>
                               /\ text' = Painted(animation[1], a)
                               /\ calls' = <<>>
                                    \o (IF ShouldUpdate THEN <<"update">> ELSE <<>>)
                                    \o <<"draw", "publish">>

\* ----------------------------------------------------------------- sizing
\* Math.floor(avail / char)
Cells(avail, char) == avail \div char

\* The comparison with the stored size looking at the columns only.
NeedsNewAnimation_colsOnly(c, r) ==
  c > 0 /\ r > 0 /\ (animation = <<>> \/ c # cols)

\* The size test letting an empty grid through.
NeedsNewAnimation_zeroToo(c, r) ==
  c >= 0 /\ r >= 0 /\ (animation = <<>> \/ c # cols \/ r # rows)

\* cols > 0 && rows > 0 && (!this.animation || cols !== this.cols || rows !== this.rows)
NeedsNewAnimation(c, r) ==
  c > 0 /\ r > 0 /\ (animation = <<>> \/ c # cols \/ r # rows)

\* The grid size _computeSize() derives from a measurement: <<>> when the
\* surface or the character cell has no area (the early returns), else
\* <<cols, rows>>.  rect is the surface's bounding rectangle, char the
\* probe's, pad the <pre>'s computed padding.
Measured(rect, char, pad) ==
  IF rect.width = 0 \/ rect.height = 0 \/ char.width = 0 \/ char.height = 0
  THEN <<>>
  ELSE <<Cells(rect.width - pad.left - pad.right, char.width),
         Cells(rect.height - pad.top - pad.bottom, char.height)>>

\* _computeSize() on the measurement (rect, char, pad).
_computeSize(rect, char, pad) ==
  LET m == Measured(rect, char, pad)
  IN  /\ sized' = <<m>>
      /\ IF m # <<>> /\ NeedsNewAnimation(m[1], m[2])
         THEN /\ cols' = m[1]
              /\ rows' = m[2]
              /\ animation' = <<AnimationClass(m[1], m[2])>>
              /\ calls' = <<"new">>
         ELSE /\ calls' = <<>>
              /\ UNCHANGED <<cols, rows, animation>>

\* What the host can report for a measurement.
Rects == [width : 0..MaxRect, height : 0..MaxRect]
Chars == {[width |-> 0, height |-> 0], [width |-> 1, height |-> 1],
          [width |-> 1, height |-> 2], [width |-> 2, height |-> 2]}
Pads  == {[top |-> 0, bottom |-> 0, left |-> 0, right |-> 0],
          [top |-> 1, bottom |-> 0, left |-> 0, right |-> 1],
          [top |-> 1, bottom |-> 1, left |-> 1, right |-> 1]}

\* ------------------------------------------------------------ construction
\* constructor + _init(): the deferred sizing callback is registered, the
\* resize listener attached, the observer connected, the preference read.
Init ==
  /\ fps \in FpsOptions
  /\ frameInterval = 1000 \div fps
  /\ running = FALSE
  /\ frameId = 0
  /\ lastFrameTime = 0
  /\ animation = <<>>
  /\ visible = TRUE
  /\ cols = 0
  /\ rows = 0
  /\ text = <<>>
  /\ rafPending = {[id |-> 1, kind |-> "_computeSize", ready |-> FALSE]}
  /\ timers = {}
  /\ resizeTimer = 0
  /\ listening = TRUE
  /\ observing = TRUE
  /\ prefersReducedMotion \in BOOLEAN
  /\ now = 0
  /\ calls = <<>>
  /\ sized = <<>>
  /\ acceptedAt = <<>>
  /\ burst = {}
  /\ destroyed = FALSE
  /\ ren = <<>>
  /\ net = <<>>
  /\ graph = <<>>
  /\ stream = <<>>

\* ------------------------------------------------------------- public API
\* start()
start ==
  /\ Cardinality(LoopPending) < MaxPending
  /\ running' = TRUE
  /\ _loop(TRUE, visible, FALSE, 0, rafPending)
  /\ sized' = <<>>
  /\ UNCHANGED libVars
  /\ UNCHANGED <<fps, frameInterval, visible, cols, rows, prefersReducedMotion, timers, resizeTimer,
                 listening, observing, now, burst, destroyed>>

\* cancelAnimationFrame(this.frameId), guarded by if (this.frameId)
CancelFrame(pend) == IF frameId # 0 THEN {c \in pend : c.id # frameId} ELSE pend

\* stop()
stop ==
  /\ running' = FALSE
  /\ rafPending' = CancelFrame(rafPending)
  /\ calls' = <<>>
  /\ sized' = <<>>
  /\ UNCHANGED libVars
  /\ UNCHANGED <<fps, frameInterval, visible, frameId, lastFrameTime, animation, cols, rows,
                 prefersReducedMotion, text, timers, resizeTimer, listening,
                 observing, now, acceptedAt, burst, destroyed>>

\* The earlier timer left pending.
ClearResizeTimer_none(ts) == ts

\* clearTimeout(this._resizeTimer)
ClearResizeTimer(ts) == {t \in ts : t.id # resizeTimer}

\* destroy()
destroy ==
  /\ running' = FALSE
  /\ rafPending' = CancelFrame(rafPending)
  /\ listening' = FALSE
  /\ timers' = ClearResizeTimer(timers)
  /\ observing' = FALSE
  /\ destroyed' = TRUE
  /\ burst' = {}
  /\ calls' = <<>>
  /\ sized' = <<>>
  /\ UNCHANGED libVars
  /\ UNCHANGED <<fps, frameInterval, visible, frameId, lastFrameTime, animation, cols, rows,
                 prefersReducedMotion, text, resizeTimer, now, acceptedAt>>

\* ---------------------------------------------------------- host callbacks
\* requestAnimationFrame((ts) => this._loop(ts)) fires.
LoopFrame ==
  \E c \in rafPending :
    /\ c.kind = "_loop"
    /\ c.ready
    /\ _loop(running, visible, TRUE, now, rafPending \ {c})
    /\ sized' = <<>>
    /\ UNCHANGED libVars
    /\ UNCHANGED <<fps, frameInterval, running, visible, cols, rows, prefersReducedMotion, timers,
                   resizeTimer, listening, observing, now, burst, destroyed>>

\* requestAnimationFrame(() => this._computeSize()) fires.
SizeFrame ==
  \E c \in rafPending, rect \in Rects, char \in Chars, pad \in Pads :
    /\ c.kind = "_computeSize"
    /\ c.ready
    /\ rafPending' = rafPending \ {c}
    /\ _computeSize(rect, char, pad)
    /\ UNCHANGED libVars
    /\ UNCHANGED <<fps, frameInterval, running, visible, frameId, lastFrameTime, prefersReducedMotion,
                   text, timers, resizeTimer, listening, observing, now,
                   acceptedAt, burst, destroyed>>

\* The window's resize signal: this._resizeHandler.
Resize ==
  /\ listening
  /\ now + ResizeDelay <= MaxTime
  /\ LET kept == ClearResizeTimer(timers)
         id == NewId(kept)
     IN  /\ timers' = kept \cup {[id |-> id, due |-> now + ResizeDelay]}
         /\ resizeTimer' = id
  /\ burst' = burst \cup {now}
  /\ calls' = <<>>
  /\ sized' = <<>>
  /\ UNCHANGED libVars
  /\ UNCHANGED <<fps, frameInterval, running, visible, frameId, lastFrameTime, animation, cols, rows,
                 prefersReducedMotion, text, rafPending, listening, observing,
                 now, acceptedAt, destroyed>>

\* setTimeout(() => this._computeSize(), 200) fires.
ResizeTimeout ==
  \E t \in timers, rect \in Rects, char \in Chars, pad \in Pads :
    /\ t.due <= now
    /\ timers' = timers \ {t}
    /\ _computeSize(rect, char, pad)
    /\ burst' = {}
    /\ UNCHANGED libVars
    /\ UNCHANGED <<fps, frameInterval, running, visible, frameId, lastFrameTime, prefersReducedMotion,
                   text, rafPending, resizeTimer, listening, observing, now,
                   acceptedAt, destroyed>>

\* The observer's callback never resuming the loop.
ResumesLoop_never(vis, run) == FALSE

\* this.visible && this.running, after this.visible = entries[0].isIntersecting
ResumesLoop(vis, run) == vis /\ run

\* The intersection observer's callback.
Intersection ==
  \E isIntersecting \in BOOLEAN :
    /\ observing
    /\ ResumesLoop(isIntersecting, running) => Cardinality(LoopPending) < MaxPending
    /\ visible' = isIntersecting
    /\ IF ResumesLoop(isIntersecting, running)
       THEN _loop(running, isIntersecting, FALSE, 0, rafPending)
       ELSE /\ calls' = <<>>
            /\ UNCHANGED <<frameId, lastFrameTime, animation, text, rafPending,
                           acceptedAt>>
    /\ sized' = <<>>
    /\ UNCHANGED libVars
    /\ UNCHANGED <<fps, frameInterval, running, cols, rows, prefersReducedMotion, timers, resizeTimer,
                   listening, observing, now, burst, destroyed>>

\* The host clock moves on to the next frame, or to the next timer's due
\* instant if that comes first.  A frame runs every callback registered
\* before it, so the clock moves only when none of them is left to run; the
\* callbacks registered since then become due.
ClockTick ==
  LET next == now + Quantum
      dues == {t.due : t \in timers}
      to == IF \E d \in dues : d < next
            THEN CHOOSE d \in dues : \A e \in dues : d <= e
            ELSE next
  IN  /\ \A c \in rafPending : ~c.ready
      /\ to > now
      /\ to <= MaxTime
      /\ now' = to
      /\ rafPending' = {[c EXCEPT !.ready = TRUE] : c \in rafPending}
      /\ calls' = <<>>
      /\ sized' = <<>>
      /\ UNCHANGED libVars
      /\ UNCHANGED <<fps, frameInterval, running, visible, frameId,
                     lastFrameTime, animation, cols, rows, prefersReducedMotion,
                     text, timers, resizeTimer, listening, observing,
                     acceptedAt, burst, destroyed>>

Next ==
  \/ start
  \/ stop
  \/ destroy
  \/ LoopFrame
  \/ SizeFrame
  \/ Resize
  \/ ResizeTimeout
  \/ Intersection
  \/ ClockTick

Spec == Init /\ [][Next]_vars

\* The controller on a window that is not resized.
LoopNext ==
  \/ start
  \/ stop
  \/ destroy
  \/ LoopFrame
  \/ SizeFrame
  \/ Intersection
  \/ ClockTick

\* The host's frame clock keeps running and runs the callbacks registered
\* with it.
Fairness ==
  /\ WF_vars(ClockTick)
  /\ WF_vars(LoopFrame)
  /\ WF_vars(SizeFrame)

\* The loop under a fair frame clock.
LiveSpec == Init /\ [][LoopNext]_vars /\ Fairness

\* ======================================================= animation variants
\* No controller is constructed: the renderer and the animation variants on
\* their own.
ControllerAbsent ==
  /\ fps = 0
  /\ frameInterval = 0
  /\ running = FALSE
  /\ visible = FALSE
  /\ frameId = 0
  /\ lastFrameTime = 0
  /\ animation = <<>>
  /\ cols = 0
  /\ rows = 0
  /\ prefersReducedMotion = FALSE
  /\ text = <<>>
  /\ rafPending = {}
  /\ timers = {}
  /\ resizeTimer = 0
  /\ listening = FALSE
  /\ observing = FALSE
  /\ now = 0
  /\ calls = <<>>
  /\ sized = <<>>
  /\ acceptedAt = <<>>
  /\ burst = {}
  /\ destroyed = FALSE

\* The values Math.random() returns, as numerators over Grain: the least
\* and the greatest.
Randoms == {0, Grain - 1}

\* The grid sizes (w, h) a NeuralNetworkAnimation is constructed with: a
\* single cell, two small grids, the grid on which all the nodes of the
\* network coincide, and an ordinary grid.
Sizes == {<<1, 1>>, <<7, 3>>, <<9, 5>>, <<12, 4>>, <<20, 12>>}

\* Math.round(p / q) for q > 0: halves round up.
Round(p, q) == (2 * p + q) \div (2 * q)

Abs(i) == IF i < 0 THEN -i ELSE i

Max(a, b) == IF a > b THEN a ELSE b

\* ------------------------------------------------------------ ASCIIRenderer
\* Coordinates and radii are real numbers in the code; the model takes them
\* in halves (x2 stands for x2 / 2), and glyphs as one-character strings.
\* A renderer is a record of width, height, buffer (the rows top to bottom,
\* each a sequence of cells, index 0 first), threw (a statement has thrown
\* a TypeError), hung (a loop did not end) and writes (history: the rounded
\* cells passed to set() by the last primitive, in order).

\* An array of n elements v.
RECURSIVE Filled(_, _)
Filled(n, v) == IF n <= 0 THEN <<>> ELSE Append(Filled(n - 1, v), v)

\* Array.from({ length: height }, () => Array(width).fill(" "))
Blank(width, height) == Filled(height, Filled(width, " "))

\* new ASCIIRenderer(width, height)
ASCIIRenderer(width, height) ==
  [width |-> width, height |-> height, buffer |-> Blank(width, height),
   threw |-> FALSE, hung |-> FALSE, writes |-> <<>>]

\* clear()
clear(r) == [r EXCEPT !.buffer = Blank(r.width, r.height)]

\* The bounds test taking the far edges in.
InBounds_inclusive(r, ix, iy) ==
  ix >= 0 /\ ix <= r.width /\ iy >= 0 /\ iy <= r.height

\* ix >= 0 && ix < this.width && iy >= 0 && iy < this.height
InBounds(r, ix, iy) == ix >= 0 /\ ix < r.width /\ iy >= 0 /\ iy < r.height

\* this.buffer[iy][ix] = ch as JavaScript executes it: a TypeError if the
\* row does not exist, the row extended (the cells in between left empty)
\* if ix is beyond its end, a property that is no cell if ix is negative.
Stored(r, ix, iy, ch) ==
  IF iy < 0 \/ iy >= Len(r.buffer)
  THEN [r EXCEPT !.threw = TRUE]
  ELSE LET row == r.buffer[iy + 1]
           holes == [i \in 1..(ix - Len(row)) |-> ""]
       IN  IF ix < 0 THEN r
           ELSE IF ix < Len(row) THEN [r EXCEPT !.buffer[iy + 1][ix + 1] = ch]
           ELSE [r EXCEPT !.buffer[iy + 1] = row \o holes \o <<ch>>]

\* this.buffer[iy][ix] as JavaScript evaluates it.
Loaded(r, ix, iy) ==
  IF iy < 0 \/ iy >= Len(r.buffer) THEN "TypeError"
  ELSE IF ix < 0 \/ ix >= Len(r.buffer[iy + 1]) THEN "undefined"
  ELSE r.buffer[iy + 1][ix + 1]

\* set(x, y, ch), x = x2 / 2 and y = y2 / 2.  A renderer that has thrown or
\* hangs executes nothing more.
set(r, x2, y2, ch) ==
  LET ix == Round(x2, 2)
      iy == Round(y2, 2)
  IN  IF r.threw \/ r.hung THEN r
      ELSE IF InBounds(r, ix, iy)
           THEN [Stored(r, ix, iy, ch) EXCEPT !.writes = Append(@, <<ix, iy>>)]
           ELSE [r EXCEPT !.writes = Append(@, <<ix, iy>>)]

\* get(x, y), x = x2 / 2 and y = y2 / 2
get(r, x2, y2) ==
  LET ix == Round(x2, 2)
      iy == Round(y2, 2)
  IN  IF InBounds(r, ix, iy) THEN Loaded(r, ix, iy) ELSE " "

\* set() called with ch on the points of the sequence (in halves), from the
\* i-th to the j-th in order: the first half of them, then the second.
RECURSIVE SetRange(_, _, _, _, _)
SetRange(r, points, ch, i, j) ==
  IF r.threw \/ r.hung \/ i > j THEN r
  ELSE IF i = j THEN set(r, points[i][1], points[i][2], ch)
  ELSE LET mid == (i + j) \div 2
       IN  SetRange(SetRange(r, points, ch, i, mid), points, ch, mid + 1, j)

\* set() called with ch on the cells of the sequence, in order.
SetAll(r, cells, ch) ==
  SetRange(r, [i \in 1..Len(cells) |-> <<2 * cells[i][1], 2 * cells[i][2]>>],
           ch, 1, Len(cells))

\* The x step tested against dy in place of -dy.
StepsX_unsigned(e2, dy) == e2 > dy

\* if (e2 > -dy)
StepsX(e2, dy) == e2 > -dy

\* if (e2 < dx)
StepsY(e2, dx) == e2 < dx

\* The cells the loop of line() passes to set() from (x, y) on, the loop cut
\* after fuel more iterations.
RECURSIVE LineWalk(_, _, _, _, _, _, _, _, _, _)
LineWalk(x, y, x1, y1, dx, dy, sx, sy, err, fuel) ==
  IF (x = x1 /\ y = y1) \/ fuel = 0 THEN <<<<x, y>>>>
  ELSE LET e2 == 2 * err
           mx == StepsX(e2, dy)
           my == StepsY(e2, dx)
       IN  <<<<x, y>>>> \o
           LineWalk(IF mx THEN x + sx ELSE x, IF my THEN y + sy ELSE y,
                    x1, y1, dx, dy, sx, sy,
                    err - (IF mx THEN dy ELSE 0) + (IF my THEN dx ELSE 0),
                    fuel - 1)

\* The cells line() passes to set() between the rounded endpoints.  Every
\* iteration but the last moves x or y one step, so a loop that has not
\* reached (x1, y1) after dx + dy steps has passed it and never ends.
LinePath(x0, y0, x1, y1) ==
  LET dx == Abs(x1 - x0)
      dy == Abs(y1 - y0)
  IN  LineWalk(x0, y0, x1, y1, dx, dy,
               IF x0 < x1 THEN 1 ELSE -1, IF y0 < y1 THEN 1 ELSE -1,
               dx - dy, dx + dy)

\* line(x0, y0, x1, y1, ch), the endpoints in halves
line(r, x0h, y0h, x1h, y1h, ch) ==
  LET x1 == Round(x1h, 2)
      y1 == Round(y1h, 2)
      path == LinePath(Round(x0h, 2), Round(y0h, 2), x1, y1)
      drawn == SetAll(r, path, ch)
  IN  IF path[Len(path)] = <<x1, y1>> THEN drawn
      ELSE [drawn EXCEPT !.hung = TRUE]

\* if (d <= 0) ... else { x--; ... }
Inwards(d) == ~(d <= 0)

\* The cells of one iteration without the four that swap x and y.
Octants_quadrants(cx, cy, x, y) ==
  <<<<cx + x, cy + y>>, <<cx - x, cy + y>>, <<cx + x, cy - y>>,
    <<cx - x, cy - y>>>>

\* The eight cells one iteration of circle() passes to set().
Octants(cx, cy, x, y) ==
  <<<<cx + x, cy + y>>, <<cx - x, cy + y>>, <<cx + x, cy - y>>,
    <<cx - x, cy - y>>, <<cx + y, cy + x>>, <<cx - y, cy + x>>,
    <<cx + y, cy - x>>, <<cx - y, cy - x>>>>

\* The cells the loop of circle() passes to set() from (x, y, d) on.
RECURSIVE CircleWalk(_, _, _, _, _)
CircleWalk(cx, cy, x, y, d) ==
  IF ~(x >= y) THEN <<>>
  ELSE Octants(cx, cy, x, y) \o
       (IF Inwards(d)
        THEN CircleWalk(cx, cy, x - 1, y + 1, d + 2 * ((y + 1) - (x - 1)) + 1)
        ELSE CircleWalk(cx, cy, x, y + 1, d + 2 * (y + 1) + 1))

\* circle(cx, cy, r, ch), the centre and the radius in halves
circle(r, cxh, cyh, rh, ch) ==
  LET rad == Round(rh, 2)
  IN  SetAll(r, CircleWalk(Round(cxh, 2), Round(cyh, 2), rad, 0, 1 - rad), ch)

\* The offsets -r, -r + 1, ... up to r of the loops of filledCircle(), in
\* halves and in order.
Offsets(rh) == [i \in 1..(rh + 1) |-> 2 * (i - 1) - rh]

\* if (dx * dx + dy * dy <= r * r), in halves
Inside(dxh, dyh, rh) == dxh * dxh + dyh * dyh <= rh * rh

\* The points filledCircle() passes to set(), in halves and in the order of
\* its loops: dy outside, dx inside.
FillPoints(cxh, cyh, rh) ==
  LET offs == Offsets(rh)
      n == Len(offs)
      pairs == [k \in 1..(n * n) |->
                  <<offs[((k - 1) % n) + 1], offs[((k - 1) \div n) + 1]>>]
      inside == SelectSeq(pairs, LAMBDA o : Inside(o[1], o[2], rh))
  IN  [k \in 1..Len(inside) |-> <<cxh + inside[k][1], cyh + inside[k][2]>>]

\* filledCircle(cx, cy, r, ch), the centre and the radius in halves
filledCircle(r, cxh, cyh, rh, ch) ==
  LET points == FillPoints(cxh, cyh, rh)
  IN  SetRange(r, points, ch, 1, Len(points))

\* One step of a draw(): set(x, y, ch) with x = x2 / 2 and y = y2 / 2, called
\* always, or only if get(x, y) === " " (when is "blank"), or only if
\* get(x, y) !== pulseChars[0] (when is "trail").
Stroke(x, y, ch, when) == [x2 |-> 2 * x, y2 |-> 2 * y, ch |-> ch, when |-> when]

\* The renderer after one stroke.
Stroked(r, s) ==
  IF r.threw \/ r.hung THEN r
  ELSE IF s.when = "always" THEN set(r, s.x2, s.y2, s.ch)
  ELSE LET seen == get(r, s.x2, s.y2)
       IN  IF seen = "TypeError" THEN [r EXCEPT !.threw = TRUE]
           ELSE IF \/ s.when = "blank" /\ seen = " "
                   \/ s.when = "trail" /\ seen # "@"
                THEN set(r, s.x2, s.y2, s.ch)
                ELSE r

\* The renderer after the strokes from the i-th to the j-th, in order: the
\* first half of them, then the second.
RECURSIVE PaintRange(_, _, _, _)
PaintRange(r, strokes, i, j) ==
  IF r.threw \/ r.hung \/ i > j THEN r
  ELSE IF i = j THEN Stroked(r, strokes[i])
  ELSE LET mid == (i + j) \div 2
       IN  PaintRange(PaintRange(r, strokes, i, mid), strokes, mid + 1, j)

\* The sequences from the i-th to the j-th of a sequence of sequences,
\* joined in order.
RECURSIVE Joined(_, _, _)
Joined(seqs, i, j) ==
  IF i > j THEN <<>>
  ELSE IF i = j THEN seqs[i] \o <<>>
  ELSE LET mid == (i + j) \div 2
       IN  Joined(seqs, i, mid) \o Joined(seqs, mid + 1, j)

\* The strokes of text(x, y, str), str a sequence of characters:
\* set(x + i, y, str[i]) for every i.
TextStrokes(x, y, str) ==
  [i \in 1..Len(str) |-> Stroke(x + (i - 1), y, str[i], "always")]

\* ASCIIRenderer.text(x, y, str), x and y whole (text is the controller's
\* variable).
rendererText(r, x, y, str) ==
  LET strokes == TextStrokes(x, y, str)
  IN  PaintRange(r, strokes, 1, Len(strokes))

\* row.join(""): the characters of the cells in order; an empty cell adds
\* none.
RowText(row) == SelectSeq(row, LAMBDA cell : cell # "")

\* The rows joined without the newlines.
render_noNewline(r) ==
  Joined([j \in 1..Len(r.buffer) |-> RowText(r.buffer[j])], 1, Len(r.buffer))

\* render(): this.buffer.map(row => row.join("")).join("\n"), the string as
\* the sequence of its characters.
render(r) ==
  Joined([j \in 1..Len(r.buffer) |->
            IF j = 1 THEN RowText(r.buffer[j])
            ELSE <<"\n">> \o RowText(r.buffer[j])],
         1, Len(r.buffer))

\* The glyphs primitives are called with.
Glyphs == {"#", "*"}

\* The strings text() is called with.
Texts == {<<"o", "k">>, <<"A", "I", "!">>}

\* The sides of the grids.
GridSides == {1, 2, MaxSide}

\* The coordinates set() and get() are called with, in halves: from beyond
\* the left and top edges to beyond the right and bottom edges.
Halves == (-3)..(2 * MaxSide + 1)

\* The coordinates of the endpoints of a line, in halves.
EndHalves == (-2)..(2 * MaxCoord)

\* The coordinates of the centre of a circle, in halves: about the middle of
\* the largest grid.
CentreHalves == (2 * (MaxSide \div 2) - 1)..(2 * (MaxSide \div 2) + 1)

\* The radii of a circle, in halves.
RadiusHalves == 0..(2 * MaxRadius)

\* A renderer is constructed, and possibly filled with one glyph; no
\* primitive has been called on it since (op is "new").
RenderInit ==
  /\ ControllerAbsent
  /\ net = <<>>
  /\ graph = <<>>
  /\ stream = <<>>
  /\ \E width \in GridSides, height \in GridSides, fill \in {" ", "*"} :
       ren = [r |-> [ASCIIRenderer(width, height) EXCEPT
                       !.buffer = Filled(height, Filled(width, fill))],
              op |-> "new", args |-> <<>>, result |-> " "]

\* One primitive is called on the renderer.
Fresh == ren # <<>> /\ ren.op = "new"

\* set(x, y, ch) is called.
Set ==
  /\ Fresh
  /\ \E x2 \in Halves, y2 \in Halves, ch \in Glyphs :
       ren' = [r |-> set(ren.r, x2, y2, ch), op |-> "set",
               args |-> <<x2, y2, ch>>, result |-> " "]
  /\ UNCHANGED <<ctlVars, net, graph, stream>>

\* get(x, y) is called.
Get ==
  /\ Fresh
  /\ \E x2 \in Halves, y2 \in Halves :
       ren' = [r |-> ren.r, op |-> "get", args |-> <<x2, y2>>,
               result |-> get(ren.r, x2, y2)]
  /\ UNCHANGED <<ctlVars, net, graph, stream>>

\* line(x0, y0, x1, y1, ch) is called.
Line ==
  /\ Fresh
  /\ \E x0h \in EndHalves, y0h \in EndHalves, x1h \in EndHalves,
        y1h \in EndHalves, ch \in Glyphs :
       ren' = [r |-> line(ren.r, x0h, y0h, x1h, y1h, ch), op |-> "line",
               args |-> <<x0h, y0h, x1h, y1h, ch>>, result |-> " "]
  /\ UNCHANGED <<ctlVars, net, graph, stream>>

\* circle(cx, cy, r, ch) is called.
Circle ==
  /\ Fresh
  /\ \E cxh \in CentreHalves, cyh \in CentreHalves, rh \in RadiusHalves,
        ch \in Glyphs :
       ren' = [r |-> circle(ren.r, cxh, cyh, rh, ch), op |-> "circle",
               args |-> <<cxh, cyh, rh, ch>>, result |-> " "]
  /\ UNCHANGED <<ctlVars, net, graph, stream>>

\* filledCircle(cx, cy, r, ch) is called.
FilledCircle ==
  /\ Fresh
  /\ \E cxh \in CentreHalves, cyh \in CentreHalves, rh \in RadiusHalves,
        ch \in Glyphs :
       ren' = [r |-> filledCircle(ren.r, cxh, cyh, rh, ch),
               op |-> "filledCircle", args |-> <<cxh, cyh, rh, ch>>,
               result |-> " "]
  /\ UNCHANGED <<ctlVars, net, graph, stream>>

\* text(x, y, str) is called.
Text ==
  /\ Fresh
  /\ \E x \in (-1)..MaxSide, y \in (-1)..MaxSide, str \in Texts :
       ren' = [r |-> rendererText(ren.r, x, y, str), op |-> "text",
               args |-> <<x, y, str>>, result |-> " "]
  /\ UNCHANGED <<ctlVars, net, graph, stream>>

\* render() is called, on a constructed grid, after a primitive or after
\* render().
Render ==
  /\ ren # <<>>
  /\ ren' = [r |-> ren.r, op |-> "render", args |-> <<>>,
             result |-> render(ren.r)]
  /\ UNCHANGED <<ctlVars, net, graph, stream>>

\* clear() is called after a primitive: the grid is as constructed.
Clear ==
  /\ ren # <<>>
  /\ ren.op # "new"
  /\ ren' = [r |-> [clear(ren.r) EXCEPT !.writes = <<>>], op |-> "new",
             args |-> <<>>, result |-> " "]
  /\ UNCHANGED <<ctlVars, net, graph, stream>>

RenderNext ==
  \/ Set
  \/ Get
  \/ Line
  \/ Circle
  \/ FilledCircle
  \/ Text
  \/ Render
  \/ Clear

\* One primitive called on a renderer.
RenderSpec == RenderInit /\ [][RenderNext]_vars

\* ------------------------------------------------- NeuralNetworkAnimation
\* const nodeCounts = [3, 5, maxNodes, 5, 2];
nodeCounts == <<3, 5, 7, 5, 2>>

\* this.layers: layer l at x = round(marginX + l * spacingX) with marginX = 6
\* and spacingX = (w - 12) / 4, its n-th node at
\* y = round(spacingY * (n + 1) + 2) with spacingY = (h - 4) / (count + 1).
Layers(w, h) ==
  [l \in 1..Len(nodeCounts) |->
     [n \in 1..nodeCounts[l] |->
        [x |-> Round(24 + (l - 1) * (w - 12), 4),
         y |-> Round((h - 4) * n + 2 * (nodeCounts[l] + 1), nodeCounts[l] + 1)]]]

\* The connections from every node of layer A to every node of layer B, in
\* the order of the nested loops.
LayerPairs(A, B) ==
  [i \in 1..(Len(A) * Len(B)) |->
     LET a == A[((i - 1) \div Len(B)) + 1]
         b == B[((i - 1) % Len(B)) + 1]
     IN  [ax |-> a.x, ay |-> a.y, bx |-> b.x, by |-> b.y]]

RECURSIVE ConnectionsFrom(_, _)
ConnectionsFrom(layers, l) ==
  IF l >= Len(layers) THEN <<>>
  ELSE LayerPairs(layers[l], layers[l + 1]) \o ConnectionsFrom(layers, l + 1)

\* this.connections
Connections(w, h) == ConnectionsFrom(Layers(w, h), 1)

\* A pulse's progress t and speed are in units of 1 / PulseOne.
PulseOne == 100 * Grain

\* speed: 0.04 + Math.random() * 0.03, with Math.random() = k / Grain
PulseSpeed(k) == 4 * Grain + 3 * k

\* Math.floor(Math.random() * this.connections.length), with
\* Math.random() = k / Grain (0-based index)
ConnectionIndex(k, length) == (k * length) \div Grain

\* new NeuralNetworkAnimation(w, h).  spawned and removed are history: the
\* pulses the last update() pushed, and the ids of the pulses update() has
\* dropped so far; a pulse's id is its ordinal among the pulses spawned.
NeuralNetworkAnimation(w, h) ==
  [w |-> w, h |-> h, time |-> 0, pulses |-> <<>>, spawnTimer |-> 0,
   pushed |-> 0, spawned |-> <<>>, removed |-> {}]

\* if (this.spawnTimer > 4)
SpawnDue(spawnTimer) == spawnTimer > 4

\* The pulses dropped one update late.
PulseStays_late(p) == p.t - p.speed <= PulseOne

\* this.pulses.filter(p => p.t <= 1)
PulseStays(p) == p.t <= PulseOne

\* p.t += p.speed
Advanced(p) == [p EXCEPT !.t = @ + p.speed]

\* NeuralNetworkAnimation.update(), with kc and ks the values Math.random()
\* returns for the connection and for the speed if a pulse is spawned.
NeuralNetworkUpdate(a, kc, ks) ==
  LET timer == a.spawnTimer + 1
      conns == Connections(a.w, a.h)
      conn == conns[ConnectionIndex(kc, Len(conns)) + 1]
      fresh == IF SpawnDue(timer)
               THEN <<[id |-> a.pushed + 1,
                       ax |-> conn.ax, ay |-> conn.ay,
                       bx |-> conn.bx, by |-> conn.by,
                       t |-> 0, speed |-> PulseSpeed(ks)]>>
               ELSE <<>>
      all == a.pulses \o fresh
      moved == [i \in 1..Len(all) |-> Advanced(all[i])]
      kept == SelectSeq(moved, PulseStays)
  IN  [a EXCEPT !.time = @ + 1,
                !.spawnTimer = IF SpawnDue(timer) THEN 0 ELSE timer,
                !.pulses = kept,
                !.pushed = @ + Len(fresh),
                !.spawned = fresh,
                !.removed = @ \cup {moved[i].id : i \in {j \in 1..Len(moved) :
                                                           ~PulseStays(moved[j])}}]

\* The strokes of draw() for one connection: i = 0, 2, ... up to steps, at
\* (round(lerp(ax, bx, i / steps)), round(lerp(ay, by, i / steps))), set to
\* "." (for the code's middle dot) where the cell is blank.  With steps = 0
\* the one iteration computes 0 / 0: both coordinates are NaN, get()
\* returns " " and set() fails its bounds test, so nothing is done.
ConnectionStrokes(c) ==
  LET dx == c.bx - c.ax
      dy == c.by - c.ay
      steps == Max(Abs(dx), Abs(dy))
  IN  IF steps = 0 THEN <<>>
      ELSE [k \in 1..((steps \div 2) + 1) |->
              Stroke(Round(c.ax * steps + dx * 2 * (k - 1), steps),
                     Round(c.ay * steps + dy * 2 * (k - 1), steps),
                     ".", "blank")]

\* const pulseChars, in ASCII: "@" for the full block, then the three
\* shades.
pulseChars == <<"@", "%", "+", ":">>

\* The strokes of draw() for one pulse: the head at lerp(a, b, p.t), then
\* for trail = 1, 2, 3 the cell at tt = p.t - trail * p.speed * 1.5 if
\* tt >= 0.  tt2 is 2 * tt.
PulseStrokes(p) ==
  LET dx == p.bx - p.ax
      dy == p.by - p.ay
      head == <<Stroke(Round(p.ax * PulseOne + dx * p.t, PulseOne),
                       Round(p.ay * PulseOne + dy * p.t, PulseOne),
                       pulseChars[1], "always")>>
      tail == [trail \in 1..(Len(pulseChars) - 1) |->
                 LET tt2 == 2 * p.t - 3 * trail * p.speed
                 IN  IF tt2 >= 0
                     THEN <<Stroke(Round(p.ax * 2 * PulseOne + dx * tt2, 2 * PulseOne),
                                   Round(p.ay * 2 * PulseOne + dy * tt2, 2 * PulseOne),
                                   pulseChars[trail + 1], "trail")>>
                     ELSE <<>>]
  IN  head \o Joined(tail, 1, Len(tail))

\* The strokes of draw() for one node: "[", the node ("o" for the code's
\* black circle), "]".
NodeStrokes(node) ==
  <<Stroke(node.x - 1, node.y, "[", "always"),
    Stroke(node.x, node.y, "o", "always"),
    Stroke(node.x + 1, node.y, "]", "always")>>

\* const labels = ["INPUT", "HIDDEN", "DEEP", "HIDDEN", "OUTPUT"]
labels ==
  <<<<"I", "N", "P", "U", "T">>, <<"H", "I", "D", "D", "E", "N">>,
    <<"D", "E", "E", "P">>, <<"H", "I", "D", "D", "E", "N">>,
    <<"O", "U", "T", "P", "U", "T">>>>

\* The first strokes of NeuralNetworkAnimation.draw() after clear(): the
\* connections.
WireStrokes(w, h) ==
  LET conns == Connections(w, h)
      wires == [i \in 1..Len(conns) |-> ConnectionStrokes(conns[i])]
  IN  Joined(wires, 1, Len(wires))

\* The strokes of NeuralNetworkAnimation.draw() after the connections, in
\* order: the pulses, the nodes layer by layer, the labels at
\* text(layers[l][0].x - floor(label.length / 2), 0, label).
NetStrokes(a) ==
  LET layers == Layers(a.w, a.h)
      heads == [i \in 1..Len(a.pulses) |-> PulseStrokes(a.pulses[i])]
      nodes == [l \in 1..Len(layers) |->
                  Joined([n \in 1..Len(layers[l]) |-> NodeStrokes(layers[l][n])],
                         1, Len(layers[l]))]
      names == [l \in 1..Len(layers) |->
                  TextStrokes(layers[l][1].x - (Len(labels[l]) \div 2), 0,
                              labels[l])]
  IN  Joined(heads, 1, Len(heads)) \o Joined(nodes, 1, Len(nodes))
        \o Joined(names, 1, Len(names))

\* The renderer of a NeuralNetworkAnimation after clear() and the
\* connection strokes of draw(), for every grid size: both depend on the
\* size only.
Wired ==
  {[w |-> size[1], h |-> size[2],
    r |-> LET strokes == WireStrokes(size[1], size[2])
          IN  PaintRange(clear(ASCIIRenderer(size[1], size[2])), strokes,
                         1, Len(strokes))] : size \in Sizes}

\* NeuralNetworkAnimation.draw() on the renderer r of the animation a: the
\* renderer as the call leaves it; the call returns render() of it.
NeuralNetworkDraw(a, r) ==
  LET strokes == NetStrokes(a)
      wired == (CHOOSE c \in Wired : c.w = r.width /\ c.h = r.height).r
  IN  [PaintRange(wired, strokes, 1, Len(strokes)) EXCEPT !.writes = <<>>]

\* A NeuralNetworkAnimation is constructed.
NetInit ==
  /\ ControllerAbsent
  /\ graph = <<>>
  /\ stream = <<>>
  /\ \E size \in Sizes :
       /\ net = NeuralNetworkAnimation(size[1], size[2])
       /\ ren = [r |-> ASCIIRenderer(size[1], size[2]), op |-> "new",
                 args |-> <<>>, result |-> " "]

\* update() is called on the NeuralNetworkAnimation.
UpdateNet ==
  /\ net # <<>>
  /\ net.time < MaxUpdates
  /\ \E kc \in Randoms, ks \in Randoms :
       net' = NeuralNetworkUpdate(net, kc, ks)
  /\ UNCHANGED <<ctlVars, ren, graph, stream>>

\* draw() is called on the NeuralNetworkAnimation.
DrawNet ==
  /\ net # <<>>
  /\ net.time <= MaxDrawnUpdates
  /\ ren' = [r |-> NeuralNetworkDraw(net, ren.r), op |-> "draw",
             args |-> <<>>, result |-> " "]
  /\ UNCHANGED <<ctlVars, net, graph, stream>>

\* --------------------------------------------------------- GraphAnimation
\* A node's position and velocity are in units of 1 / GraphOne.
GraphOne == 40 * Grain

\* function clamp(v, lo, hi) { return Math.max(lo, Math.min(hi, v)); }
clamp(v, lo, hi) ==
  LET m == IF hi < v THEN hi ELSE v
  IN  IF lo > m THEN lo ELSE m

\* The node the constructor pushes, with kx, ky, kvx, kvy the values
\* Math.random() returns: x = 4 + r * (w - 8), y = 2 + r * (h - 4),
\* vx = (r - 0.5) * 0.3, vy = (r - 0.5) * 0.15.
GraphNode(w, h, kx, ky, kvx, kvy) ==
  [x |-> 4 * GraphOne + 40 * kx * (w - 8),
   y |-> 2 * GraphOne + 40 * ky * (h - 4),
   vx |-> 6 * (2 * kvx - Grain),
   vy |-> 3 * (2 * kvy - Grain)]

\* The node left where the walls are, without the clamp.
Bounced_noClamp(n, w, h) ==
  LET x == n.x + n.vx
      y == n.y + n.vy
  IN  [x |-> x,
       y |-> y,
       vx |-> IF x < 3 * GraphOne \/ x > (w - 4) * GraphOne THEN -n.vx ELSE n.vx,
       vy |-> IF y < 1 * GraphOne \/ y > (h - 2) * GraphOne THEN -n.vy ELSE n.vy]

\* The body of update()'s loop for one node.
Bounced(n, w, h) ==
  LET x == n.x + n.vx
      y == n.y + n.vy
  IN  [x |-> clamp(x, 3 * GraphOne, (w - 4) * GraphOne),
       y |-> clamp(y, 1 * GraphOne, (h - 2) * GraphOne),
       vx |-> IF x < 3 * GraphOne \/ x > (w - 4) * GraphOne THEN -n.vx ELSE n.vx,
       vy |-> IF y < 1 * GraphOne \/ y > (h - 2) * GraphOne THEN -n.vy ELSE n.vy]

\* GraphAnimation.update()
GraphUpdate(a) ==
  [a EXCEPT !.time = @ + 1,
            !.nodes = [i \in 1..Len(a.nodes) |-> Bounced(a.nodes[i], a.w, a.h)]]

\* The labels of the twelve nodes.
nodeLabels ==
  <<<<"M", "L">>, <<"A", "I">>, <<"D", "L">>, <<"N", "L", "P">>,
    <<"C", "V">>, <<"L", "L", "M">>, <<"G", "A", "N">>, <<"R", "L">>,
    <<"C", "N", "N">>, <<"R", "N", "N">>, <<"G", "P", "U">>,
    <<"T", "P", "U">>>>

\* dist < d, with dist = sqrt((a.x - b.x) ** 2 + ((a.y - b.y) * 2) ** 2)
Nearer(a, b, d) ==
  (a.x - b.x) * (a.x - b.x) + 4 * (a.y - b.y) * (a.y - b.y)
    < d * d * GraphOne * GraphOne

\* The strokes of draw() for the nodes a and b: nothing if dist >= 30,
\* else for s = 0, 2, ... up to steps = max(|b.x - a.x|, |b.y - a.y|) the
\* cell at lerp(a, b, s / steps), set to "-" (for the code's box line) if
\* dist < 15 and to "." otherwise, where the cell is blank.  With
\* steps = 0 the coordinates are NaN and nothing is done.
EdgeStrokes(a, b) ==
  LET dx == b.x - a.x
      dy == b.y - a.y
      steps == Max(Abs(dx), Abs(dy))
      ch == IF Nearer(a, b, 15) THEN "-" ELSE "."
  IN  IF ~Nearer(a, b, 30) \/ steps = 0 THEN <<>>
      ELSE [k \in 1..((steps \div (2 * GraphOne)) + 1) |->
              Stroke(Round(a.x * steps + dx * 2 * (k - 1) * GraphOne,
                           GraphOne * steps),
                     Round(a.y * steps + dy * 2 * (k - 1) * GraphOne,
                           GraphOne * steps),
                     ch, "blank")]

\* The pairs (i, j), i < j, of the nested loops of draw(), in order.
NodePairs(n) ==
  Joined([i \in 1..n |-> [k \in 1..(n - i) |-> <<i, i + k>>]], 1, n)

\* The strokes of draw() for the i-th node: "[", the label, "]".
LabelStrokes(node, i) ==
  LET nx == Round(node.x, GraphOne)
      ny == Round(node.y, GraphOne)
  IN  <<Stroke(nx - 1, ny, "[", "always")>>
        \o TextStrokes(nx, ny, nodeLabels[i])
        \o <<Stroke(nx + Len(nodeLabels[i]), ny, "]", "always")>>

\* The strokes of GraphAnimation.draw() after clear(), in order.
GraphStrokes(a) ==
  LET pairs == NodePairs(Len(a.nodes))
      edges == [k \in 1..Len(pairs) |->
                  EdgeStrokes(a.nodes[pairs[k][1]], a.nodes[pairs[k][2]])]
      boxes == [i \in 1..Len(a.nodes) |-> LabelStrokes(a.nodes[i], i)]
  IN  Joined(edges, 1, Len(edges)) \o Joined(boxes, 1, Len(boxes))

\* GraphAnimation.draw() on the renderer r of the animation a.
GraphDraw(a, r) ==
  LET strokes == GraphStrokes(a)
  IN  [PaintRange(clear(r), strokes, 1, Len(strokes)) EXCEPT !.writes = <<>>]

\* The grid sizes (w, h) a GraphAnimation is constructed with: a single
\* cell, the smallest grid whose margins leave one position, and an ordinary
\* grid.
GraphSizes == {<<1, 1>>, <<7, 3>>, <<20, 12>>}

\* A GraphAnimation is constructed; the code pushes 12 nodes, the model
\* NodeCount.
GraphInit ==
  /\ ControllerAbsent
  /\ net = <<>>
  /\ stream = <<>>
  /\ \E size \in GraphSizes :
       \E draws \in [1..NodeCount -> [kx : Randoms, ky : Randoms,
                                      kvx : Randoms, kvy : Randoms]] :
         /\ ren = [r |-> ASCIIRenderer(size[1], size[2]), op |-> "new",
                   args |-> <<>>, result |-> " "]
         /\ graph = [w |-> size[1], h |-> size[2], time |-> 0,
                     nodes |-> [i \in 1..NodeCount |->
                                  GraphNode(size[1], size[2], draws[i].kx,
                                            draws[i].ky, draws[i].kvx,
                                            draws[i].kvy)]]

\* update() is called on the GraphAnimation.
UpdateGraph ==
  /\ graph # <<>>
  /\ graph.time < MaxGraphUpdates
  /\ graph' = GraphUpdate(graph)
  /\ UNCHANGED <<ctlVars, ren, net, stream>>

\* draw() is called on the GraphAnimation.
DrawGraph ==
  /\ graph # <<>>
  /\ ren' = [r |-> GraphDraw(graph, ren.r), op |-> "draw",
             args |-> <<>>, result |-> " "]
  /\ UNCHANGED <<ctlVars, net, graph, stream>>

\* ---------------------------------------------------- DataStreamAnimation
\* A column's head position and speed are in units of 1 / StreamOne.
StreamOne == 10 * Grain

\* 0.2 + Math.random() * 0.5
ColumnSpeed(k) == 2 * Grain + 5 * k

\* 4 + Math.floor(Math.random() * 12)
ColumnLength(k) == 4 + (12 * k) \div Grain

\* The column the constructor pushes: y = Math.random() * h * 2 - h,
\* active = Math.random() > 0.5.  run is history: the head position, speed
\* and run length when the column last became active or was reset, and the
\* number of update() calls that have advanced it since.
Column(h, ky, ks, kl, ka) ==
  [y |-> 20 * ky * h - StreamOne * h,
   speed |-> ColumnSpeed(ks),
   length |-> ColumnLength(kl),
   active |-> 2 * ka > Grain,
   run |-> [y |-> 20 * ky * h - StreamOne * h, speed |-> ColumnSpeed(ks),
            length |-> ColumnLength(kl), k |-> 0]]

\* The head advanced by the speed and by the run length.
Fallen_drift(col) == col.y + col.speed + col.length

\* col.y += col.speed
Fallen(col) == col.y + col.speed

\* The test on the head alone.
PastBottom_head(y, length, h) == y > h * StreamOne

\* if (col.y - col.length > this.h), after the advance to y
PastBottom(y, length, h) == y - length * StreamOne > h * StreamOne

\* The body of update()'s loop for one column, with kon, ks, kl, koff the
\* values Math.random() returns for the activation, the new speed, the new
\* length and the deactivation.
ColumnUpdate(col, h, kon, ks, kl, koff) ==
  IF ~col.active
  THEN IF 200 * kon < Grain
       THEN [col EXCEPT !.active = TRUE,
                        !.run = [y |-> col.y, speed |-> col.speed,
                                 length |-> col.length, k |-> 0]]
       ELSE col
  ELSE LET y == Fallen(col)
       IN  IF PastBottom(y, col.length, h)
           THEN [y |-> -col.length * StreamOne,
                 speed |-> ColumnSpeed(ks),
                 length |-> ColumnLength(kl),
                 active |-> ~(10 * koff < 3 * Grain),
                 run |-> [y |-> -col.length * StreamOne,
                          speed |-> ColumnSpeed(ks),
                          length |-> ColumnLength(kl), k |-> 0]]
           ELSE [col EXCEPT !.y = y, !.run.k = @ + 1]

\* DataStreamAnimation.update()
StreamUpdate(a, draws) ==
  [a EXCEPT !.time = @ + 1,
            !.columns = [x \in 1..Len(a.columns) |->
                           ColumnUpdate(a.columns[x], a.h, draws[x].kon,
                                        draws[x].ks, draws[x].kl, draws[x].koff)]]

\* The grid sizes a DataStreamAnimation is constructed with: one column per
\* unit of width.
StreamSizes == {<<1, 1>>, <<1, 3>>}

\* A DataStreamAnimation is constructed.
StreamInit ==
  /\ ControllerAbsent
  /\ ren = <<>>
  /\ net = <<>>
  /\ graph = <<>>
  /\ \E size \in StreamSizes :
       \E draws \in [1..size[1] -> [ky : Randoms, ks : Randoms,
                                    kl : Randoms, ka : Randoms]] :
         stream = [w |-> size[1], h |-> size[2], time |-> 0,
                   columns |-> [x \in 1..size[1] |->
                                  Column(size[2], draws[x].ky, draws[x].ks,
                                         draws[x].kl, draws[x].ka)]]

\* update() is called on the DataStreamAnimation.
UpdateStream ==
  /\ stream # <<>>
  /\ stream.time < MaxUpdates
  /\ \E draws \in [1..stream.w -> [kon : Randoms, ks : Randoms,
                                    kl : Randoms, koff : Randoms]] :
       stream' = StreamUpdate(stream, draws)
  /\ UNCHANGED <<ctlVars, ren, net, graph>>

\* ------------------------------------------ the variants' specification
AnimInit == NetInit \/ GraphInit \/ StreamInit

AnimNext ==
  \/ UpdateNet
  \/ UpdateGraph
  \/ UpdateStream

\* One animation instance of one variant, constructed and updated.
AnimSpec == AnimInit /\ [][AnimNext]_vars

DrawInit == NetInit \/ GraphInit

DrawNext ==
  \/ UpdateNet
  \/ DrawNet
  \/ UpdateGraph
  \/ DrawGraph

\* One NeuralNetworkAnimation or GraphAnimation, constructed, updated and
\* drawn, in any order.
DrawSpec == DrawInit /\ [][DrawNext]_vars

\* ------------------------------------------------------------- properties
\* f is among the calls cs.
Called(cs, f) == \E i \in 1..Len(cs) : cs[i] = f

\* A registered _loop callback is about to run in this frame, and would pass
\* the frame gate with an animation to draw.
TickWouldDraw ==
  /\ animation # <<>>
  /\ GateOpen(now - lastFrameTime)
  /\ \E c \in LoopPending : c.ready

\* C1: once stop() has returned and until start() is called again (running
\* is false), no step - a frame-clock tick, a visibility signal, a sizing
\* callback - calls the animation's update() or draw() or changes the
\* published text, however many tick callbacks were pending at stop().
C1_StoppedIsQuiet ==
  [][~running =>
       /\ ~Called(calls', "update")
       /\ ~Called(calls', "draw")
       /\ text' = text]_vars

\* stop() has returned after a frame was published, the surface is visible,
\* and a tick callback that stop() did not cancel is about to run with the
\* frame gate open.
C1_Witness ==
  /\ ~running
  /\ visible
  /\ text # <<>>
  /\ TickWouldDraw

\* C2: while the visible flag is false, no step calls the animation's
\* update() or draw(), whatever the running flag and the elapsed time.
C2_InvisibleIsQuiet ==
  [][~visible =>
       /\ ~Called(calls', "update")
       /\ ~Called(calls', "draw")]_vars

\* The surface is off-screen while the controller runs, and a tick callback
\* is about to run with the frame gate open.
C2_Witness ==
  /\ ~visible
  /\ running
  /\ TickWouldDraw

\* C3: after destroy() has returned no host callback restarts the loop or
\* runs a sizing computation: running becomes true only by an explicit
\* start(), and the animation instance, cols and rows are never replaced.
C3_DestroyedIsFinal ==
  [][destroyed =>
       /\ ~Called(calls', "new")
       /\ cols' = cols
       /\ rows' = rows
       /\ (running' => running \/ start)]_vars

\* C4 as stated: the timestamps of two consecutive accepted frames are at
\* least one frame interval apart.
C4_AcceptedTimestampsApart ==
  [][(lastFrameTime' # lastFrameTime /\ acceptedAt # <<>>) =>
       now - acceptedAt[1] >= frameInterval]_vars

\* C4, amended: a tick does frame work only if it passes the gate, which
\* needs at least one frame interval since the stored lastFrameTime; passing
\* the gate stores the tick's timestamp less its remainder modulo the frame
\* interval, so the stored values of two consecutive accepted frames are at
\* least one frame interval apart, and the stored value is less than one
\* frame interval before the accepted frame's timestamp.
C4_GateOnStoredFrameTime ==
  [][/\ (Called(calls', "update") \/ Called(calls', "draw"))
          => lastFrameTime' # lastFrameTime
     /\ lastFrameTime' # lastFrameTime =>
          /\ now - lastFrameTime >= frameInterval
          /\ lastFrameTime' - lastFrameTime >= frameInterval
          /\ lastFrameTime' <= now
          /\ now - lastFrameTime' < frameInterval]_vars

\* A frame was accepted and drawn at a timestamp that is not the stored
\* lastFrameTime.
C4_Witness ==
  /\ Called(calls, "draw")
  /\ acceptedAt # <<>>
  /\ acceptedAt[1] > lastFrameTime

\* C5: with the reduced-motion preference set, no step calls update() and
\* the animation stays in its constructed state, while every frame that
\* passes the gate with an animation calls draw() and publishes its result.
C5_ReducedMotionDrawsOnly ==
  [][prefersReducedMotion =>
       /\ ~Called(calls', "update")
       /\ animation' # <<>> => animation'[1] = AnimationClass(cols', rows')
       /\ (lastFrameTime' # lastFrameTime /\ animation # <<>>) =>
            /\ Called(calls', "draw")
            /\ Called(calls', "publish")
            /\ text' = draw(animation'[1])]_vars

\* Under reduced motion a second frame has been drawn and published.
C5_Witness ==
  /\ prefersReducedMotion
  /\ Called(calls, "draw")
  /\ text # <<>>
  /\ lastFrameTime >= 2 * frameInterval

\* C6: a sizing computation replaces the animation by a fresh instance
\* exactly when the computed cols and rows are both positive and there is no
\* animation yet or they differ from the stored ones; otherwise animation,
\* cols and rows stay as they are.  An existing animation always has the
\* controller's cols and rows as its width and height.
C6_SizingReplacesExactlyOnChange ==
  [][/\ sized' # <<>> =>
          LET m == sized'[1]
          IN  IF /\ m # <<>>
                 /\ m[1] > 0
                 /\ m[2] > 0
                 /\ (animation = <<>> \/ m[1] # cols \/ m[2] # rows)
              THEN /\ animation' = <<AnimationClass(m[1], m[2])>>
                   /\ cols' = m[1]
                   /\ rows' = m[2]
                   /\ Called(calls', "new")
              ELSE /\ UNCHANGED <<animation, cols, rows>>
                   /\ ~Called(calls', "new")
     /\ animation' # <<>> =>
          /\ animation'[1].w = cols'
          /\ animation'[1].h = rows']_vars

\* A resize replaced an animation that had already published a frame at
\* other dimensions.
C6_Witness ==
  /\ sized # <<>>
  /\ Called(calls, "new")
  /\ text # <<>>
  /\ <<text[1], text[2]>> # <<cols, rows>>
  /\ animation = <<AnimationClass(cols, rows)>>

\* C7: a sizing computation that yields cols = 0 or rows = 0 creates no
\* animation instance; while there is no animation instance a tick calls
\* neither update() nor draw() and publishes nothing, and a tick of the live
\* loop still schedules its successor.
C7_NoAnimationNoDrawing ==
  [][/\ (/\ sized' # <<>>
         /\ sized'[1] # <<>>
         /\ (sized'[1][1] = 0 \/ sized'[1][2] = 0))
          => /\ ~Called(calls', "new")
             /\ UNCHANGED <<animation, cols, rows>>
     /\ animation = <<>> =>
          /\ ~Called(calls', "update")
          /\ ~Called(calls', "draw")
          /\ text' = text
          /\ (LoopFrame /\ running /\ visible) =>
               Cardinality(LoopPending') = Cardinality(LoopPending)]_vars

\* The loop runs and has passed the frame gate twice although the sizing
\* computations so far created no animation.
C7_Witness ==
  /\ animation = <<>>
  /\ running
  /\ visible
  /\ text = <<>>
  /\ lastFrameTime >= 2 * frameInterval
  /\ LoopPending # {}

\* The position of f in the calls cs (0: not called).
CallIndex(cs, f) ==
  IF Called(cs, f) THEN CHOOSE i \in 1..Len(cs) : cs[i] = f ELSE 0

\* C11: the published text changes only in a step that passes the frame gate
\* and publishes; in such a step update() (if called at all) comes before
\* draw(), draw() before the publication, each is called once, and the
\* published text is draw()'s result on the animation as update() left it.
C11_FrameOrdering ==
  [][/\ text' # text => Called(calls', "publish")
     /\ Called(calls', "publish") =>
          /\ lastFrameTime' # lastFrameTime
          /\ calls' \in {<<"update", "draw", "publish">>, <<"draw", "publish">>}
          /\ Called(calls', "update") =>
               CallIndex(calls', "update") < CallIndex(calls', "draw")
          /\ CallIndex(calls', "draw") < CallIndex(calls', "publish")
          /\ text' = draw(animation'[1])
     /\ (Called(calls', "update") \/ Called(calls', "draw")) =>
          Called(calls', "publish")]_vars

\* A second frame was updated, drawn and published, and the text shown is
\* the drawing of the animation after its second update.
C11_Witness ==
  /\ calls = <<"update", "draw", "publish">>
  /\ animation # <<>>
  /\ animation[1].time >= 2
  /\ text = draw(animation[1])

\* The identifiers of the registered _loop callbacks.
LoopIds == {c.id : c \in LoopPending}

\* Whenever running and visible are both true a frame-clock tick is
\* scheduled.
TickScheduledWhileLive == running /\ visible => LoopPending # {}

\* C8: whenever running and visible are both true a frame-clock tick is
\* scheduled; and under a fair host, while the controller stays running and
\* visible with an animation and the clock horizon leaves room for another
\* frame interval, a further frame is accepted and drawn.
C8_ForwardProgress ==
  /\ []TickScheduledWhileLive
  /\ (/\ running
      /\ visible
      /\ animation # <<>>
      /\ now + frameInterval + Quantum <= MaxTime)
     ~> (Called(calls, "draw") \/ ~running \/ ~visible)

\* The controller runs on a visible surface, has just drawn a frame past the
\* second frame interval, and the next tick is scheduled.
C8_Witness ==
  /\ running
  /\ visible
  /\ Called(calls, "draw")
  /\ lastFrameTime >= 2 * frameInterval
  /\ LoopPending # {}

\* While the visible flag is false and stays false no step schedules a tick,
\* and a tick that fires leaves without scheduling a successor.
OffScreenSchedulesNothing ==
  [][(~visible /\ ~visible') =>
       /\ LoopIds' \subseteq LoopIds
       /\ LoopFrame => Cardinality(LoopPending') < Cardinality(LoopPending)]_vars

\* C9: while the visible flag is false and stays false no step schedules a
\* tick, and every tick that fires leaves without scheduling a successor;
\* under a fair host the scheduled ticks all fire, after which none is
\* scheduled until visibility returns.
C9_PausedOffScreen ==
  /\ OffScreenSchedulesNothing
  /\ (~visible /\ now + Quantum <= MaxTime) ~> (visible \/ LoopPending = {})

\* The surface went off-screen while the controller was running with two
\* ticks scheduled, and both are about to fire.
C9_Witness ==
  /\ ~visible
  /\ running
  /\ Cardinality({c \in LoopPending : c.ready}) >= 2

\* The latest instant in a set of instants.
Latest(instants) == CHOOSE t \in instants : \A u \in instants : u <= t

\* The step is the sizing computation of a debounce timer that fired: a
\* sizing computation that consumed a timer.
TimerSized == sized' # <<>> /\ timers' # timers

\* C10: at most one debounce timer is pending; a resize signal leaves
\* exactly the timer due ResizeDelay after it; the timer's sizing
\* computation runs exactly ResizeDelay after the last signal of the burst,
\* hence not during the burst, and leaves no timer behind, so it runs once.
C10_ResizeDebounced ==
  [][/\ Cardinality(timers') <= 1
     /\ Resize => timers' = {[id |-> resizeTimer', due |-> now + ResizeDelay]}
     /\ \A t \in timers' : /\ burst' # {}
                           /\ t.due = Latest(burst') + ResizeDelay
                           /\ now' <= t.due
     /\ TimerSized =>
          /\ burst # {}
          /\ now = Latest(burst) + ResizeDelay
          /\ timers' = {}]_vars

\* Two resize signals arrived less than ResizeDelay apart and the one timer
\* left is due now, ResizeDelay after the second.
C10_Witness ==
  /\ Cardinality(burst) >= 2
  /\ \E t \in timers : t.due = now /\ now = Latest(burst) + ResizeDelay

\* The pulse p lies on one of the precomputed connections of the w x h
\* network.
OnConnection(p, w, h) ==
  \E i \in 1..Len(Connections(w, h)) :
    LET c == Connections(w, h)[i]
    IN  /\ p.ax = c.ax
        /\ p.ay = c.ay
        /\ p.bx = c.bx
        /\ p.by = c.by

\* C12: counting update() calls from construction (time), every 4th call
\* spawns exactly one pulse and the other calls spawn none; a spawned pulse
\* lies on one of the precomputed connections.
C12_SpawnEveryFourth ==
  [][UpdateNet =>
       /\ Len(net'.spawned) = (IF net'.time % 4 = 0 THEN 1 ELSE 0)
       /\ \A i \in 1..Len(net'.spawned) :
            OnConnection(net'.spawned[i], net.w, net.h)]_vars

\* The ids of the pulses in the sequence ps.
PulseIds(ps) == {ps[i].id : i \in 1..Len(ps)}

\* The pulse with the id among the pulses ps.
PulseOf(ps, id) == ps[CHOOSE i \in 1..Len(ps) : ps[i].id = id]

\* C13: an update() advances every pulse of the active set by the pulse's
\* own positive speed, which it leaves as it is, and keeps the pulse exactly
\* when its progress is still at most 1; a pulse once removed is never
\* active again, and after the update every active pulse has its progress in
\* (0, 1].
C13_PulseLifecycle ==
  [][UpdateNet =>
       /\ \A i \in 1..Len(net.pulses) :
            LET p == net.pulses[i]
            IN  /\ p.speed > 0
                /\ IF p.t + p.speed <= PulseOne
                   THEN /\ p.id \in PulseIds(net'.pulses)
                        /\ PulseOf(net'.pulses, p.id) = [p EXCEPT !.t = p.t + p.speed]
                        /\ PulseOf(net'.pulses, p.id).t > p.t
                   ELSE /\ p.id \notin PulseIds(net'.pulses)
                        /\ p.id \in net'.removed
       /\ PulseIds(net'.pulses) \subseteq
            PulseIds(net.pulses) \cup PulseIds(net'.spawned)
       /\ net.removed \subseteq net'.removed
       /\ net'.removed \cap PulseIds(net'.pulses) = {}
       /\ \A i \in 1..Len(net'.pulses) :
            /\ net'.pulses[i].t > 0
            /\ net'.pulses[i].t <= PulseOne]_vars

\* A pulse has been removed while a pulse spawned after it is still active.
C13_Witness ==
  /\ net # <<>>
  /\ net.removed # {}
  /\ net.pulses # <<>>
  /\ \A id \in net.removed : \A q \in PulseIds(net.pulses) : id < q

\* The node's x lies within the horizontal margins of a grid of width w.
WithinX(n, w) == 3 * GraphOne <= n.x /\ n.x <= (w - 4) * GraphOne

\* The node's y lies within the vertical margins of a grid of height h.
WithinY(n, h) == 1 * GraphOne <= n.y /\ n.y <= (h - 2) * GraphOne

\* C14 as stated: for every grid size with width, height >= 1, after any
\* number of update() calls (at least one), every node has
\* 3 <= x <= width - 4 and 1 <= y <= height - 2.
C14_NodesWithinMargins ==
  (graph # <<>> /\ graph.time >= 1) =>
    \A i \in 1..Len(graph.nodes) :
      /\ WithinX(graph.nodes[i], graph.w)
      /\ WithinY(graph.nodes[i], graph.h)

\* C14, amended: every node has 3 <= x <= width - 4 if width >= 8, or if
\* width = 7 and update() has been called at least once; and
\* 1 <= y <= height - 2 if height >= 4, or if height = 3 and update() has been
\* called at least once.  On a narrower (lower) grid the interval is empty,
\* and after every update() x = 3 (y = 1), the lower margin.
C14_NodesWithinMarginsOfWideGrid ==
  graph # <<>> =>
    \A i \in 1..Len(graph.nodes) :
      LET n == graph.nodes[i]
      IN  /\ (graph.w >= 8 \/ (graph.w = 7 /\ graph.time >= 1)) => WithinX(n, graph.w)
          /\ (graph.h >= 4 \/ (graph.h = 3 /\ graph.time >= 1)) => WithinY(n, graph.h)
          /\ (graph.w < 7 /\ graph.time >= 1) => n.x = 3 * GraphOne
          /\ (graph.h < 3 /\ graph.time >= 1) => n.y = 1 * GraphOne

\* On a grid with room between the margins a node that started inside has
\* run into the top margin: it sits on it, moving away.
C14_Witness ==
  /\ graph # <<>>
  /\ graph.w >= 8
  /\ graph.h >= 4
  /\ graph.time >= 2
  /\ \E i \in 1..Len(graph.nodes) :
       /\ graph.nodes[i].y = 1 * GraphOne
       /\ graph.nodes[i].vy > 0

\* C15: an update() that finds a column active and does not reset it adds
\* the column's speed to its head position and leaves its speed, run length
\* and active flag as they are; so after k such calls in a row the head is
\* at the position where the run began plus k times the speed, and the speed
\* and run length are those of the beginning of the run.
C15_StreamAccumulates ==
  [][UpdateStream =>
       \A x \in 1..Len(stream.columns) :
         LET col == stream.columns[x]
             after == stream'.columns[x]
         IN  /\ (col.active /\ ~PastBottom(col.y + col.speed, col.length, stream.h)) =>
                  /\ after.y = col.y + col.speed
                  /\ after.speed = col.speed
                  /\ after.length = col.length
                  /\ after.active
                  /\ after.run.k = col.run.k + 1
             /\ after.active =>
                  /\ after.y = after.run.y + after.run.k * after.speed
                  /\ after.speed = after.run.speed
                  /\ after.length = after.run.length]_vars

\* A column has been advanced by five update() calls in a row, in a run that
\* began with a reset (above the grid, at minus a run length).
C15_Witness ==
  /\ stream # <<>>
  /\ \E x \in 1..Len(stream.columns) :
       /\ stream.columns[x].active
       /\ stream.columns[x].run.k >= 5
       /\ stream.columns[x].run.y <= -ColumnLength(0) * StreamOne

\* The cell (ix, iy) lies in [0, width) x [0, height).
InGrid(width, height, ix, iy) ==
  0 <= ix /\ ix < width /\ 0 <= iy /\ iy < height

\* C17: set(x, y, ch) and get(x, y) never fail; when the rounded coordinates
\* lie outside [0, width) x [0, height), get returns a space and set leaves
\* the buffer (and so render()) as it is; when they lie inside, get returns
\* the cell, and set changes that cell to ch and no other cell, after which
\* get returns ch.
C17_GridBounds ==
  [][/\ (ren.op = "new" /\ ren'.op = "set") =>
          LET ix == Round(ren'.args[1], 2)
              iy == Round(ren'.args[2], 2)
              ch == ren'.args[3]
          IN  /\ ~ren'.r.threw
              /\ DOMAIN ren'.r.buffer = DOMAIN ren.r.buffer
              /\ \A j \in DOMAIN ren.r.buffer :
                   DOMAIN ren'.r.buffer[j] = DOMAIN ren.r.buffer[j]
              /\ IF InGrid(ren.r.width, ren.r.height, ix, iy)
                 THEN /\ \A j \in DOMAIN ren.r.buffer :
                           \A i \in DOMAIN ren.r.buffer[j] :
                             ren'.r.buffer[j][i] =
                               IF j = iy + 1 /\ i = ix + 1 THEN ch
                               ELSE ren.r.buffer[j][i]
                      /\ get(ren'.r, ren'.args[1], ren'.args[2]) = ch
                 ELSE render(ren'.r) = render(ren.r)
     /\ (ren.op = "new" /\ ren'.op = "get") =>
          LET ix == Round(ren'.args[1], 2)
              iy == Round(ren'.args[2], 2)
          IN  /\ ren'.r = ren.r
              /\ ren'.result =
                   IF InGrid(ren.r.width, ren.r.height, ix, iy)
                   THEN ren.r.buffer[iy + 1][ix + 1] ELSE " "]_vars

\* set() was called on a filled grid with another glyph at a point whose
\* rounded coordinates lie just beyond the right edge.
C17_Witness ==
  /\ ren # <<>>
  /\ ren.op = "set"
  /\ Round(ren.args[1], 2) = ren.r.width
  /\ Round(ren.args[2], 2) = 0
  /\ ren.args[3] = "#"
  /\ ren.r.buffer[1][1] = "*"

\* Two cells next to each other, diagonals included.
Adjacent(a, b) == a # b /\ Abs(a[1] - b[1]) <= 1 /\ Abs(a[2] - b[2]) <= 1

\* The buffer of the renderer after the step is the one before it with ch
\* in the cells among cells that are inside the grid, and nothing else.
OnlyWritten(cells, ch) ==
  /\ ~ren'.r.threw
  /\ DOMAIN ren'.r.buffer = DOMAIN ren.r.buffer
  /\ \A j \in DOMAIN ren.r.buffer :
       /\ DOMAIN ren'.r.buffer[j] = DOMAIN ren.r.buffer[j]
       /\ \A i \in DOMAIN ren.r.buffer[j] :
            ren'.r.buffer[j][i] =
              IF \E k \in DOMAIN cells : cells[k] = <<i - 1, j - 1>>
              THEN ch ELSE ren.r.buffer[j][i]

\* C18: line(x0, y0, x1, y1, ch) terminates for all endpoints, inside or
\* outside the grid, and the cells it passes to set() are an 8-connected
\* path: the first is the (rounded) start, the last the (rounded) end,
\* consecutive cells are distinct and differ by at most 1 in each
\* coordinate, there are exactly max(|x1 - x0|, |y1 - y0|) + 1 of them, and
\* no cell is further than half a cell from the straight line, and the
\* grid changes in these cells only.  A line from a point to itself
\* passes one cell, and the line from (0, 0) to (4, 0) the cells (0, 0),
\* (1, 0), (2, 0), (3, 0), (4, 0).
C18_LineIsBresenham ==
  [][(ren.op = "new" /\ ren'.op = "line") =>
       LET x0 == Round(ren'.args[1], 2)
           y0 == Round(ren'.args[2], 2)
           x1 == Round(ren'.args[3], 2)
           y1 == Round(ren'.args[4], 2)
           cells == ren'.r.writes
           n == Max(Abs(x1 - x0), Abs(y1 - y0)) + 1
       IN  /\ ~ren'.r.hung
           /\ Len(cells) = n
           /\ cells[1] = <<x0, y0>>
           /\ cells[n] = <<x1, y1>>
           /\ \A k \in 1..(n - 1) : Adjacent(cells[k], cells[k + 1])
           /\ \A k \in 1..n :
                2 * Abs((cells[k][1] - x0) * (y1 - y0)
                          - (cells[k][2] - y0) * (x1 - x0)) <= n - 1
           /\ OnlyWritten(cells, ren'.args[5])
           /\ (x0 = x1 /\ y0 = y1) => cells = <<<<x0, y0>>>>
           /\ (x0 = 0 /\ y0 = 0 /\ x1 = 4 /\ y1 = 0) =>
                cells = <<<<0, 0>>, <<1, 0>>, <<2, 0>>, <<3, 0>>, <<4, 0>>>>]_vars

\* The line from (0, 0) to (4, 0) has been drawn on a blank grid that holds
\* it: the top row reads "#####".
C18_Witness ==
  /\ ren # <<>>
  /\ ren.op = "line"
  /\ ren.args = <<0, 0, 8, 0, "#">>
  /\ ren.r.width = 5
  /\ ren.r.buffer[1] = <<"#", "#", "#", "#", "#">>
  /\ Len(ren.r.writes) = 5

\* The offsets from the rounded centre of the cells the circle() of the
\* step passed to set().
CircleOffsets ==
  LET cx == Round(ren'.args[1], 2)
      cy == Round(ren'.args[2], 2)
      cells == ren'.r.writes
  IN  {<<cells[k][1] - cx, cells[k][2] - cy>> : k \in DOMAIN cells}

\* A set of offsets invariant under swapping dx and dy, negating dx and
\* negating dy.
Reflected(offs) ==
  \A o \in offs :
    /\ <<o[2], o[1]>> \in offs
    /\ <<-o[1], o[2]>> \in offs
    /\ <<o[1], -o[2]>> \in offs

\* C19 as stated: for every radius r >= 0 the offsets of the cells
\* circle() sets are invariant under the 8 reflections and none of them has
\* dx * dx + dy * dy < (r - 1) * (r - 1).
C19_CircleOutlineOnly ==
  [][(ren.op = "new" /\ ren'.op = "circle") =>
       LET rad == Round(ren'.args[3], 2)
       IN  /\ Reflected(CircleOffsets)
           /\ \A o \in CircleOffsets :
                ~(o[1] * o[1] + o[2] * o[2] < (rad - 1) * (rad - 1))]_vars

\* C19, amended: circle(cx, cy, r, ch) ends for every radius r >= 0; the
\* offsets of the cells it passes to set() are invariant under the 8
\* reflections; for r >= 1 none of them has dx * dx + dy * dy <
\* (r - 1) * (r - 1), and for r = 0 the only one is (0, 0), the centre;
\* the grid changes in the cells passed to set() that it contains, and in
\* no other.
C19_CircleOutline ==
  [][(ren.op = "new" /\ ren'.op = "circle") =>
       LET rad == Round(ren'.args[3], 2)
       IN  /\ ~ren'.r.hung
           /\ Reflected(CircleOffsets)
           /\ rad >= 1 =>
                \A o \in CircleOffsets :
                  o[1] * o[1] + o[2] * o[2] >= (rad - 1) * (rad - 1)
           /\ rad = 0 => CircleOffsets = {<<0, 0>>}
           /\ OnlyWritten(ren'.r.writes, ren'.args[4])]_vars

\* A circle of radius 2 has been drawn about the middle of a blank grid
\* that contains it: the cell two above the centre is set, the centre and
\* the cells next to it are not.
C19_Witness ==
  /\ ren # <<>>
  /\ ren.op = "circle"
  /\ ren.args = <<4, 4, 4, "#">>
  /\ ren.r.width = 5
  /\ ren.r.height = 5
  /\ ren.r.buffer[1][3] = "#"
  /\ ren.r.buffer[3][3] = " "
  /\ ren.r.buffer[2][3] = " "
  /\ ren.r.buffer[3][1] = "#"

\* The filledCircle() of the step, called with radius rh / 2 about the
\* centre (cx, cy), has set every cell of the grid at an offset
\* (dx, dy) with dx * dx + dy * dy <= r * r, and passed no cell to set()
\* whose offset has dx * dx + dy * dy > r * r.
IsDisc(cx, cy, rh, ch) ==
  /\ \A j \in DOMAIN ren'.r.buffer :
       \A i \in DOMAIN ren'.r.buffer[j] :
         LET dx == (i - 1) - cx
             dy == (j - 1) - cy
         IN  4 * (dx * dx + dy * dy) <= rh * rh => ren'.r.buffer[j][i] = ch
  /\ \A k \in DOMAIN ren'.r.writes :
       LET dx == ren'.r.writes[k][1] - cx
           dy == ren'.r.writes[k][2] - cy
       IN  ~(4 * (dx * dx + dy * dy) > rh * rh)

\* C20: for every radius r >= 0, filledCircle(cx, cy, r, ch) about a centre
\* with whole coordinates sets every cell of the grid at an integer offset
\* (dx, dy) from the centre with dx * dx + dy * dy <= r * r, and sets no
\* cell whose offset has dx * dx + dy * dy > r * r.
C20_FilledCircleIsDisc ==
  [][(/\ ren.op = "new"
      /\ ren'.op = "filledCircle"
      /\ ren'.args[1] % 2 = 0
      /\ ren'.args[2] % 2 = 0) =>
       IsDisc(ren'.args[1] \div 2, ren'.args[2] \div 2,
              ren'.args[3], ren'.args[4])]_vars

\* The animation that is drawn.
Drawn == IF net # <<>> THEN net ELSE graph

\* The glyphs the draw() of the two variants sets, in the model's ASCII,
\* and the blank.
DrawGlyphs ==
  {" ", ".", "-", "[", "]", "o"}
    \cup {pulseChars[i] : i \in DOMAIN pulseChars}
    \cup UNION {{labels[l][i] : i \in DOMAIN labels[l]} : l \in DOMAIN labels}
    \cup UNION {{nodeLabels[l][i] : i \in DOMAIN nodeLabels[l]} :
                  l \in DOMAIN nodeLabels}

C24_PulsesBounded ==
  net # <<>> => Len(net.pulses) <= 5

\* Five pulses are in flight at once: the slowest, pushed by the 5th
\* update(), is still there when the 25th pushes another.
C24_Witness ==
  /\ net # <<>>
  /\ net.time >= 25
  /\ Len(net.pulses) = 5
  /\ net.pulses[1].id = 1
  /\ net.pulses[5].t = net.pulses[5].speed

\* C21: render() leaves the renderer as it is; a render() that follows a
\* render() returns the same string; the string is height rows of width
\* characters, top row first, with a newline between two rows and none at
\* the end, the i-th character of the j-th row being the cell (i, j) of the
\* buffer; and on a constructed or cleared grid every character of a row
\* is a space.
C21_RenderPure ==
  [][ren'.op = "render" =>
       LET w == ren.r.width
           h == ren.r.height
           out == ren'.result
       IN  /\ ren'.r = ren.r
           /\ ren.op = "render" => out = ren.result
           /\ Len(out) = h * (w + 1) - 1
           /\ \A j \in 1..h :
                /\ j < h => out[j * (w + 1)] = "\n"
                /\ \A i \in 1..w :
                     /\ out[(j - 1) * (w + 1) + i] = ren.r.buffer[j][i]
                     /\ out[(j - 1) * (w + 1) + i] # "\n"
           /\ ren.r.buffer = Blank(w, h) =>
                \A k \in 1..Len(out) : k % (w + 1) # 0 => out[k] = " "]_vars

\* render() has been called after a line was drawn across the top row of
\* a blank grid 5 wide and 2 high: the string is the line, a newline, and
\* the blank bottom row.
C21_Witness ==
  /\ ren # <<>>
  /\ ren.op = "render"
  /\ ren.r.width = 5
  /\ ren.r.height = 2
  /\ ren.r.buffer[2] = <<" ", " ", " ", " ", " ">>
  /\ ren.result = <<"#", "#", "#", "#", "#", "\n", " ", " ", " ", " ", " ">>

\* C22: in every update() of a DataStreamAnimation, a column that is active
\* becomes inactive only if its tail has scrolled past the bottom
\* (head - length > height after the advance), and then its head is reset
\* to -length; an active column whose tail has not passed the bottom stays
\* active; the head, speed and run length of an inactive column are left as
\* they are; and after the update every active column has
\* head - length <= height.
C22_ColumnStateMachine ==
  [][(stream # <<>> /\ stream' # stream) =>
       \A x \in 1..Len(stream.columns) :
         LET col == stream.columns[x]
             after == stream'.columns[x]
             past == col.y + col.speed - col.length * StreamOne
                       > stream.h * StreamOne
         IN  /\ (col.active /\ ~after.active) =>
                  /\ past
                  /\ after.y = -col.length * StreamOne
             /\ (col.active /\ ~past) => after.active
             /\ ~col.active =>
                  /\ after.y = col.y
                  /\ after.speed = col.speed
                  /\ after.length = col.length
             /\ after.active =>
                  after.y - after.length * StreamOne <= stream.h * StreamOne]_vars

\* A column whose tail scrolled past the bottom has been reset above the
\* top and deactivated: no constructed column is that high.
C22_Witness ==
  /\ stream # <<>>
  /\ stream.time >= 1
  /\ \E x \in 1..Len(stream.columns) :
       /\ ~stream.columns[x].active
       /\ stream.columns[x].y <= -4 * StreamOne
       /\ stream.columns[x].y < -stream.h * StreamOne


\* C23: at most one frame-clock callback of the controller is scheduled at
\* any time, whatever the interleaving of start(), stop(), visibility signals
\* and ticks, and frameId identifies the only pending callback.
C23_OneTickPending ==
  /\ Cardinality(LoopPending) <= 1
  /\ \A c \in LoopPending : c.id = frameId

====
